---- MODULE Spec2Model ----
(***************************************************************************)
(* Model of the worker: the per-session streaming actor                    *)
(* (src/worker/live_stream.py, class LiveBrowserStream), the provisioning  *)
(* loop that owns the actors (described in spec.md section 4.4; its code   *)
(* is not among the source files) and the authenticated tunnel             *)
(* (src/worker/main.py, websockify_endpoint).                              *)
(***************************************************************************)
EXTENDS Integers, Sequences, FiniteSets, TLC

\* ------------------------------------------------------------------ bounds
MaxRequests == 2
MaxFrames == 2

MaxTime == 2
\* messages relayed on one tunnel connection
MaxBytes == 2
\* commands received on the command surface
MaxCommands == 2
\* requests received by the Task Gateway
MaxTasks == 2

SessionIds == {"s1", "s2"}
Conns == {"c1", "c2"}
Urls == {"wsA", "wsB"}
\* "ok": a well formed CDP event; "nodata": params lacks 'data' or
\* 'metadata'/'timestamp'; "nosid": params lacks 'sessionId'.
PayloadKinds == {"ok", "nodata", "nosid"}

VARIABLES
  actors,     \* sequence of LiveBrowserStream objects created so far
  frames,     \* sequence of screencast frames the engine has emitted
  stalled,    \* actors whose consumer channel never completes a send
  store,      \* Session Store: session id -> map of fields
  published,  \* session id -> frames published on browser:frames:<id>
  sent,       \* session id -> frames sent on the consumer channel
  queue,      \* provisioning queue
  enqueued,   \* number of requests enqueued so far
  ppc,        \* position of the provisioning loop
  cur,        \* request the provisioning loop is processing
  curActor,   \* actor the provisioning loop is starting (0: none)
  registry,   \* in-memory actor registry: session id -> actor (0: none)
  processed,  \* the requests processed so far, each with how it ended
  conns,      \* tunnel connections: connection -> its state
  cmd,        \* the commands received so far, each with its response
  resp,       \* the Task Gateway's responses so far
  pages       \* the open pages of the Task Gateway's browser, each its state

vars == <<actors, frames, stalled, store, published, sent, queue, enqueued,
          ppc, cur, curActor, registry, processed, conns, cmd,
          resp, pages>>

ActorIds == 1..MaxRequests
NoReq == [sessionId |-> "", url |-> ""]
NoFields == [k \in {} |-> ""]

\* ------------------------------------------------------------ Session Store
Get(m, k) == IF k \in DOMAIN m THEN m[k] ELSE ""

\* A write that updates an existing entry and creates none.
hset_update_only(m, mapping) ==
  IF DOMAIN m = {} THEN m
  ELSE [k \in DOMAIN m \cup DOMAIN mapping |->
          IF k \in DOMAIN mapping THEN mapping[k] ELSE m[k]]

\* redis hset(key, mapping=...): field-level upsert, creating the entry.
hset(m, mapping) ==
  [k \in DOMAIN m \cup DOMAIN mapping |->
     IF k \in DOMAIN mapping THEN mapping[k] ELSE m[k]]

\* ------------------------------------------------------- LiveBrowserStream
\* A constructor that stores the session id where the channel URL belongs.
LiveBrowserStream_url_lost(session_id, backend_ws_url) ==
  [session_id |-> session_id, backend_ws_url |-> session_id,
   ws |-> "none", browser |-> "none", page |-> FALSE, cdp |-> FALSE,
   capturing |-> FALSE, listener |-> FALSE, unacked |-> 0,
   pc |-> "connect", err |-> "", hpc |-> "idle", hframe |-> 0]

\* __init__: the fields; 'capturing', 'listener', 'unacked' are the engine's
\* side of the CDP session (screencast running, frame callback registered,
\* frame awaiting Page.screencastFrameAck); pc is the position inside
\* start(); hpc/hframe the position of _on_frame and the frame it handles.
LiveBrowserStream(session_id, backend_ws_url) ==
  [session_id |-> session_id, backend_ws_url |-> backend_ws_url,
   ws |-> "none", browser |-> "none", page |-> FALSE, cdp |-> FALSE,
   capturing |-> FALSE, listener |-> FALSE, unacked |-> 0,
   pc |-> "connect", err |-> "", hpc |-> "idle", hframe |-> 0]

\* A handler that logs the failure and returns normally.
start_except_swallowed(r, msg) == [r EXCEPT !.pc = "returned", !.err = msg]

\* start(), lines 204-207: the handler logs and re-raises.
start_except(r, msg) == [r EXCEPT !.pc = "raised", !.err = msg]

\* start(), lines 110-118: websockets.connect to the backend.
start_connect(r, ok) ==
  IF ok THEN [r EXCEPT !.ws = "open", !.pc = "launch"]
  ELSE start_except(r, "connect failed")

\* start(), lines 123-159: async_playwright().start() and chromium.launch.
start_launch(r, ok) ==
  IF ok THEN [r EXCEPT !.browser = "open", !.pc = "page"]
  ELSE start_except(r, "launch failed")

\* start(), lines 164-171: browser.new_page and new_cdp_session.  Both need
\* the browser still open (stop() may have closed it meanwhile).
start_page(r, ok) ==
  IF ok /\ r.browser = "open"
  THEN [r EXCEPT !.page = TRUE, !.cdp = TRUE, !.pc = "screencast"]
  ELSE start_except(r, "page failed")

\* A start() that does not notice a failed start-capture command.
start_screencast_unchecked(r, ok) ==
  [r EXCEPT !.capturing = ok /\ r.browser = "open", !.pc = "attach"]

\* start(), lines 176-182: cdp.send('Page.startScreencast').
start_screencast(r, ok) ==
  IF ok /\ r.browser = "open"
  THEN [r EXCEPT !.capturing = TRUE, !.pc = "attach"]
  ELSE start_except(r, "startScreencast failed")

\* A start() that attaches the listener and then never returns.
start_attach_hangs(r) == [r EXCEPT !.listener = TRUE]

\* start(), line 186: cdp.on('Page.screencastFrame', self._on_frame), and the
\* normal return at line 202.
start_attach(r) == [r EXCEPT !.listener = TRUE, !.pc = "returned"]

\* Readiness fields that carry the status of a failure.
start_fields_error ==
  [browser_ready |-> "true", worker_ready |-> "true",
   workerConnected |-> "true", status |-> "error",
   stream_started_at |-> "ts"]

\* start(), lines 191-197: the readiness fields written by start().
start_fields ==
  [browser_ready |-> "true", worker_ready |-> "true",
   workerConnected |-> "true", status |-> "active",
   stream_started_at |-> "ts"]

\* start(), lines 190-200: the hset is wrapped in try/except; a store failure
\* is logged and start() goes on.
start_hset(m, ok) == IF ok THEN hset(m, start_fields) ELSE m

\* An hset outside any try: its failure leaves start().
start_hset_unguarded(ok) == ~ok

\* start(), lines 199-200: whether a failed hset leaves start() as an
\* exception (it does not: the inner handler only logs).
start_hset_raises(ok) == FALSE

\* A stop() that closes the consumer channel and nothing else.
stop_channel_only(r, failAt) ==
  [actor |-> IF r.ws # "none" THEN [r EXCEPT !.ws = "closed"] ELSE r,
   raised |-> FALSE]

\* stop(), lines 265-272.  failAt names the await that raises ("none": no
\* failure).  Page.stopScreencast needs a live browser; self.cdp, self.browser
\* and self.ws stay set after a stop, so a second stop sends again.
stop(r, failAt) ==
  LET cdpRaises == r.cdp /\ (failAt = "cdp" \/ r.browser # "open")
      r1 == IF r.cdp /\ ~cdpRaises THEN [r EXCEPT !.capturing = FALSE] ELSE r
      brRaises == ~cdpRaises /\ r1.browser # "none" /\ failAt = "browser"
      r2 == IF ~cdpRaises /\ ~brRaises /\ r1.browser # "none"
            THEN [r1 EXCEPT !.browser = "closed", !.capturing = FALSE]
            ELSE r1
      wsRaises == ~cdpRaises /\ ~brRaises /\ r2.ws # "none" /\ failAt = "ws"
      r3 == IF ~cdpRaises /\ ~brRaises /\ ~wsRaises /\ r2.ws # "none"
            THEN [r2 EXCEPT !.ws = "closed"]
            ELSE r2
  IN [actor |-> r3, raised |-> cdpRaises \/ brRaises \/ wsRaises]

StopFailures == {"none", "cdp", "browser", "ws"}

Ops == {"navigate", "click", "type", "scroll"}

\* navigate/click/type/scroll, lines 249-263: each awaits one operation of
\* self.page and returns; with no page, or with the browser closed, the
\* operation raises.
command(r, op) == IF r.page /\ r.browser = "open" THEN "ok" ELSE "raised"

\* _on_frame, lines 213-218: building frame_data raises KeyError when the
\* event lacks 'data' or 'metadata'.
on_frame_build_raises(kind) == kind = "nodata"

\* _on_frame, lines 239-241: building the ack parameters raises KeyError when
\* the event lacks 'sessionId'.
on_frame_ack_raises(kind) == kind = "nosid"

\* _on_frame, lines 244-246: the outer handler logs and returns; nothing is
\* acknowledged on that path.
on_frame_except(fr) == [fr EXCEPT !.fate = "returned"]

\* A handler position shared by all actors: one return ends every call.
on_frame_return_shared(acts, a) ==
  [b \in DOMAIN acts |-> [acts[b] EXCEPT !.hpc = "idle"]]

\* _on_frame, lines 244-246: after logging, the call of this actor returns to
\* the engine; the handler is a bound method, its state is the actor's own.
on_frame_return(acts, a) == [acts EXCEPT ![a].hpc = "idle"]

\* A forward that hands the message over twice.
forward_twice(seq, f) == Append(Append(seq, f), f)

\* _on_frame, lines 222-225 and 233: one publish and one send per call, each
\* handing frame f to its path behind the frames handed over before.
forward(seq, f) == Append(seq, f)

\* _on_frame, line 231: 'if self.ws' (the attribute stays set after close).
on_frame_next(r) == IF r.ws # "none" THEN "send" ELSE "ack"

\* ------------------------------------------------------ command surface
\* A lookup that falls back to the first actor.
find_stream_any(reg, s) == IF reg[s] # 0 THEN reg[s] ELSE 1

\* The actor registered for a session (0: none).
find_stream(reg, s) == reg[s]

\* ----------------------------------------------------------- Task Gateway
Actions == {"navigate", "screenshot", "type", "click", "search", "other"}
Agents == {"browser-use", "skyvern", "lavague", "stagehand"}

\* create_task, lines 343-421: whether the action finds its argument
\* ('target' for navigate, 'text' for type and search, 'selector' for
\* click); a missing one raises ValueError.
has_argument(action, hasTarget, hasText, hasSelector) ==
  IF action = "navigate" THEN hasTarget
  ELSE IF action \in {"type", "search"} THEN hasText
  ELSE IF action = "click" THEN hasSelector
  ELSE TRUE

\* create_task, lines 346-414: the keys of a successful response.
success_keys(action) ==
  {"success", "message"} \cup
    (IF action = "navigate" THEN {"url", "title"}
     ELSE IF action = "screenshot" THEN {"screenshot"}
     ELSE IF action = "type" THEN {"selector", "text"}
     ELSE IF action = "click" THEN {"selector"}
     ELSE {"search_text"})

\* A handler whose page operations run outside any try: their failure
\* leaves the handler.
create_task_unguarded(action, hasTarget, hasText, hasSelector, browserOk, pageOk) ==
  IF action # "other" /\ browserOk
     /\ has_argument(action, hasTarget, hasText, hasSelector) /\ ~pageOk
  THEN [endpoint |-> "task", action |-> action, success |-> FALSE,
        keys |-> {}, message |-> "", raised |-> TRUE]
  ELSE [endpoint |-> "task", action |-> action, success |-> browserOk,
        keys |-> {"success", "message"}, message |-> "done",
        raised |-> FALSE]

\* create_task, lines 298-446: the response to POST /task.  browserOk: the
\* browser is there and opens a page (lines 334-339); pageOk: the page
\* operations of the action succeed.  'message' is what the message field
\* tells; 'raised': an exception leaves the handler.
create_task(action, hasTarget, hasText, hasSelector, browserOk, pageOk) ==
  IF ~browserOk
  THEN [endpoint |-> "task", action |-> action, success |-> FALSE,
        keys |-> {"success", "message", "error"},
        message |-> "Task endpoint failed: browser", raised |-> FALSE]
  ELSE IF action = "other"
  THEN [endpoint |-> "task", action |-> action, success |-> FALSE,
        keys |-> {"success", "message"},
        message |-> "Unsupported action", raised |-> FALSE]
  ELSE IF ~has_argument(action, hasTarget, hasText, hasSelector)
  THEN [endpoint |-> "task", action |-> action, success |-> FALSE,
        keys |-> {"success", "message"},
        message |-> "Task failed: missing argument", raised |-> FALSE]
  ELSE IF ~pageOk
  THEN [endpoint |-> "task", action |-> action, success |-> FALSE,
        keys |-> {"success", "message"},
        message |-> "Task failed: page operation", raised |-> FALSE]
  ELSE [endpoint |-> "task", action |-> action, success |-> TRUE,
        keys |-> success_keys(action), message |-> "done",
        raised |-> FALSE]

\* Where a call of an agent framework can fail: the import, the
\* construction of the agent, its execution, the reading of its result.
AgentStages == {"none", "import", "construct", "execute", "result"}

\* An endpoint whose import stands before its try.
agent_task_import_outside(agent, stage) ==
  [endpoint |-> agent, action |-> "instruction", success |-> FALSE,
   keys |-> {}, error |-> "", actionsExecuted |-> 0, agentType |-> agent,
   raised |-> stage = "import"]

\* browser_use_task, skyvern_task, lavague_task, stagehand_task, lines
\* 732-901: the response of an agent-framework endpoint; the whole body is
\* in one try, its handler returns the failure response.
agent_task(agent, stage) ==
  IF stage = "none"
  THEN [endpoint |-> agent, action |-> "instruction", success |-> TRUE,
        keys |-> {"success", "data", "actionsExecuted", "screenshot",
                  "agentType"}
                 \cup (IF agent = "skyvern" THEN {"visualAnalysis"}
                       ELSE IF agent = "lavague" THEN {"workflowSteps"}
                       ELSE IF agent = "stagehand" THEN {"generatedCode"}
                       ELSE {}),
        error |-> "", actionsExecuted |-> 1, agentType |-> agent,
        raised |-> FALSE]
  ELSE [endpoint |-> agent, action |-> "instruction", success |-> FALSE,
        keys |-> {"success", "data", "actionsExecuted", "agentType"},
        error |-> stage, actionsExecuted |-> 0, agentType |-> agent,
        raised |-> FALSE]

\* init_browser, lines 69-98, run by startup_event (line 266): the browser
\* is launched and one page is opened on about:blank.
startup_pages == <<"about:blank">>

\* A handler that works on the last page opened instead of opening one.
reuse_page(ps) == ps

\* create_task, line 339: context_page = await browser.new_page(); nothing
\* in the handler closes it (lines 425-426).
new_page(ps) == Append(ps, "about:blank")

\* What an action leaves on its page: a navigation that succeeded leaves
\* the target's document, typing and clicking leave an edited document, a
\* failing page operation may have done part of its work.
page_after(action, hasArg, pageOk) ==
  IF action \in {"other", "screenshot"} \/ ~hasArg THEN {"about:blank"}
  ELSE IF action = "navigate"
  THEN (IF pageOk THEN {"target"} ELSE {"about:blank", "target"})
  ELSE (IF pageOk THEN {"edited"} ELSE {"about:blank", "edited"})

\* A response together with the request it answers.
answered(r, req) ==
  [k \in DOMAIN r \cup {"req"} |-> IF k = "req" THEN req ELSE r[k]]

\* ------------------------------------------------- tunnel (/websockify)
\* A token as the handler can tell tokens apart: absent from the query, the
\* empty string, not a JWT, signed with another secret, or signed with the
\* shared secret; a signed token may carry exp, a not-before in the future
\* (nbf) and a session id.
TokenSids == {"s1", "s2"}
QuerySids == {"", "s1"}

Tokens ==
  {[kind |-> k, hasExp |-> FALSE, exp |-> 0, nbf |-> FALSE, sid |-> "s1"] :
     k \in {"missing", "empty", "malformed", "badsig"}}
  \cup {[kind |-> "signed", hasExp |-> TRUE, exp |-> e, nbf |-> FALSE,
         sid |-> s] : e \in 0..MaxTime, s \in TokenSids}
  \cup {[kind |-> "signed", hasExp |-> FALSE, exp |-> 0, nbf |-> n,
         sid |-> s] : n \in BOOLEAN, s \in TokenSids}

NoToken == [kind |-> "missing", hasExp |-> FALSE, exp |-> 0, nbf |-> FALSE,
            sid |-> "s1"]

\* A test for an absent token only ('token is None').
token_is_none(tok) == tok.kind = "missing"

\* line 495: 'if not token' is true of an absent and of an empty token.
token_missing(tok) == tok.kind \in {"missing", "empty"}

\* A decode that does not verify the signature.
jwt_decode_unverified(tok, t) ==
  IF tok.kind \in {"malformed", "empty", "missing"} THEN "DecodeError"
  ELSE IF tok.nbf THEN "ImmatureSignatureError"
  ELSE IF tok.hasExp /\ tok.exp <= t THEN "ExpiredSignatureError"
  ELSE "payload"

\* line 507: jwt.decode(token, jwt_secret, algorithms=["HS256"]) at time t:
\* the exception it raises, or "payload".
jwt_decode(tok, t) ==
  IF tok.kind \in {"malformed", "empty", "missing"} THEN "DecodeError"
  ELSE IF tok.kind = "badsig" THEN "InvalidSignatureError"
  ELSE IF tok.nbf THEN "ImmatureSignatureError"
  ELSE IF tok.hasExp /\ tok.exp <= t THEN "ExpiredSignatureError"
  ELSE "payload"

\* An expiry check that takes a token without exp for an expired one.
exp_check_required(tok, t) == ~tok.hasExp \/ t >= tok.exp

\* lines 516-523: exp = payload.get('exp'); if exp: ... now >= exp_time.
exp_check(tok, t) == tok.hasExp /\ tok.exp # 0 /\ t >= tok.exp

\* lines 527-542: the close reason of each except clause.
except_reason(exc) ==
  IF exc = "ExpiredSignatureError" THEN "Token expired"
  ELSE IF exc = "InvalidSignatureError" THEN "Invalid signature"
  ELSE IF exc = "DecodeError" THEN "Invalid token format"
  ELSE "Token validation failed"

\* A validation whose rejections close the connection and then fall through
\* to the handshake (the 'return' after each close is missing).
websockify_validate_no_return(tok, t, t2) ==
  IF tok.kind \in {"missing", "empty"}
  THEN [ok |-> TRUE, reason |-> "Missing token", log |-> <<"close">>]
  ELSE IF tok.kind # "signed" \/ tok.nbf \/ (tok.hasExp /\ tok.exp <= t2)
  THEN [ok |-> TRUE, reason |-> "Token expired", log |-> <<"decode", "close">>]
  ELSE [ok |-> TRUE, reason |-> "", log |-> <<"decode", "validated">>]

\* lines 488-542: the validation of one connection, decoding at time t and
\* comparing the expiry at time t2; 'log' lists what was done, in order.
websockify_validate(tok, t, t2) ==
  IF token_missing(tok)
  THEN [ok |-> FALSE, reason |-> "Missing token", log |-> <<"close">>]
  ELSE LET out == jwt_decode(tok, t)
       IN IF out # "payload"
          THEN [ok |-> FALSE, reason |-> except_reason(out),
                log |-> <<"decode", "close">>]
          ELSE IF exp_check(tok, t2)
          THEN [ok |-> FALSE, reason |-> "Token expired",
                log |-> <<"decode", "close">>]
          ELSE [ok |-> TRUE, reason |-> "", log |-> <<"decode", "validated">>]

\* line 512: the token carries a session id, the query carries one, and
\* they differ.
session_mismatch(tok, q) == tok.sid # "" /\ q # "" /\ tok.sid # q

\* A mismatch that closes the connection.
on_session_mismatch_reject(v) ==
  [ok |-> FALSE, reason |-> "Session mismatch", log |-> <<"decode", "close">>]

\* line 513: a mismatch prints a warning and validation goes on.
on_session_mismatch(v) == v

\* Whether closing an end in state st can raise: closing an end that is
\* already closed may raise (Starlette refuses a second close message) or
\* may do nothing (websockets' close returns at once).
close_may_raise(st) == IF st = "closed" THEN BOOLEAN ELSE {FALSE}

\* A close outside any try: what it raises leaves the caller.
close_unguarded(raised) == raised

\* lines 565-568, 580-583, 591-594: every close is wrapped in
\* 'try: ... except Exception: pass': what it raises does not leave the try.
close_escapes(raised) == FALSE

\* The log of a connection after a close of an end in state st.
close_logged(log, st) == IF st = "closed" THEN Append(log, "reclose") ELSE log

\* The messages of a tunnel: binary ones and a text one.
BinaryMsgs == {"b1", "b2"}
Msgs == BinaryMsgs \cup {"t1"}

\* line 561, websocket.receive_bytes(): a text message has no 'bytes' and
\* raises; the loop's handler then ends the loop.
receive_bytes_raises(m) == m \notin BinaryMsgs

\* A copy that puts the newest message first.
relay_send_front(seq, m) == <<m>> \o seq

\* lines 562 and 573-576: upstream.send(data), websocket.send_bytes(message)
\* and websocket.send_text(message) hand the received message over as it
\* is, behind the ones sent before.
relay_send(seq, m) == Append(seq, m)

\* One upstream connection shared by all handler calls: what one client
\* sends is seen upstream of every connection.
client_to_upstream_shared(cs, c, m) ==
  [d \in DOMAIN cs |->
     IF d = c
     THEN [cs[d] EXCEPT !.bytes = @ + 1, !.fromClient = Append(@, m),
                        !.toUpstream = relay_send(@, m)]
     ELSE [cs[d] EXCEPT !.toUpstream = relay_send(@, m)]]

\* lines 555-562: 'upstream' is the connection that this call of the handler
\* opened ('async with websockets.connect(uri) as upstream'); the loop is a
\* closure over it and over this call's client connection.
client_to_upstream(cs, c, m) ==
  [cs EXCEPT ![c] = [@ EXCEPT !.bytes = @ + 1,
                              !.fromClient = Append(@, m),
                              !.toUpstream = relay_send(@, m)]]

\* A connection before its handler runs.
NoConn ==
  [pc |-> "pending", token |-> NoToken, sessionId |-> "", vtime |-> 0,
   reason |-> "", log |-> << >>, client |-> "open", upstream |-> "none",
   c2u |-> "idle", u2c |-> "idle", bytes |-> 0,
   fromClient |-> << >>, toUpstream |-> << >>,
   fromUpstream |-> << >>, toClient |-> << >>]

\* ------------------------------------------------------------------- Init
Init ==
  /\ actors = << >>
  /\ frames = << >>
  /\ stalled = {}
  /\ store = [s \in SessionIds |-> NoFields]
  /\ published = [s \in SessionIds |-> << >>]
  /\ sent = [s \in SessionIds |-> << >>]
  /\ queue = << >>
  /\ enqueued = 0
  /\ ppc = "pop"
  /\ cur = NoReq
  /\ curActor = 0
  /\ registry = [s \in SessionIds |-> 0]
  /\ processed = << >>
  /\ conns = [c \in Conns |-> NoConn]
  /\ cmd = << >>
  /\ resp = << >>
  /\ pages = startup_pages

streamVars == <<actors, frames, stalled, published, sent>>
provVars == <<queue, enqueued, ppc, cur, curActor, registry, processed>>

\* --------------------------------------------------- provisioning (spec 4.4)
\* A producer pushes {sessionId, agentId} on the provisioning queue.
Enqueue ==
  /\ UNCHANGED <<conns, cmd, resp, pages>>
  /\ enqueued < MaxRequests
  /\ \E s \in SessionIds, u \in Urls :
       queue' = Append(queue, [sessionId |-> s, url |-> u])
  /\ enqueued' = enqueued + 1
  /\ UNCHANGED <<streamVars, store, ppc, cur, curActor, registry, processed>>

\* Blocking pop with a bounded wait: an item, an empty queue, or a
\* queue-access error.
ProvPop ==
  /\ UNCHANGED <<conns, cmd, resp, pages>>
  /\ ppc = "pop"
  /\ \/ /\ queue # << >>
        /\ cur' = Head(queue)
        /\ queue' = Tail(queue)
        /\ ppc' = "got"
     \/ /\ queue = << >>
        /\ ppc' = "sleep"
        /\ UNCHANGED <<cur, queue>>
     \/ /\ ppc' = "backoff"
        /\ UNCHANGED <<cur, queue>>
  /\ UNCHANGED <<streamVars, store, enqueued, curActor, registry, processed>>

\* Empty queue: sleep briefly and retry.
ProvSleep ==
  /\ UNCHANGED <<conns, cmd, resp, pages>>
  /\ ppc = "sleep"
  /\ ppc' = "pop"
  /\ UNCHANGED <<streamVars, store, queue, enqueued, cur, curActor, registry,
                 processed>>

\* Queue-access error: back off and retry.
ProvBackoff ==
  /\ UNCHANGED <<conns, cmd, resp, pages>>
  /\ ppc = "backoff"
  /\ ppc' = "pop"
  /\ UNCHANGED <<streamVars, store, queue, enqueued, cur, curActor, registry,
                 processed>>

\* The record of a processed request: how it ended, the actor constructed for
\* it (0: none) and the failure message.
Done(req, outcome, actor, err) ==
  [sessionId |-> req.sessionId, url |-> req.url, outcome |-> outcome,
   actor |-> actor, err |-> err]

\* The error state: status=error, lastError, failedAt.
error_fields(msg) == [status |-> "error", lastError |-> msg, failedAt |-> "ts"]

\* The ready state: browserReady, workerConnected, status=ready, readyAt.
ready_fields ==
  [browser_ready |-> "true", workerConnected |-> "true", status |-> "ready",
   readyAt |-> "ts"]

\* A request for a session that has an actor tears that actor down first
\* (last request wins); then the new actor is constructed.  A failure of the
\* teardown or of the construction is recorded like any other failure.
ProvBegin ==
  /\ UNCHANGED <<conns, cmd, resp, pages>>
  /\ ppc = "got"
  /\ LET s == cur.sessionId
         old == registry[s]
     IN \E failAt \in StopFailures, initOk \in BOOLEAN :
          LET res == IF old # 0 THEN stop(actors[old], failAt)
                     ELSE [actor |-> NoReq, raised |-> FALSE]
              torn == IF old # 0
                      THEN [actors EXCEPT ![old] = res.actor]
                      ELSE actors
          IN /\ (old = 0 => failAt = "none")
             /\ IF res.raised \/ ~initOk
                THEN /\ actors' = torn
                     /\ registry' = IF res.raised THEN registry
                                    ELSE [registry EXCEPT ![s] = 0]
                     /\ store' = [store EXCEPT ![s] =
                                    hset(@, error_fields(
                                      IF res.raised THEN "teardown failed"
                                      ELSE "init failed"))]
                     /\ ppc' = "pop"
                     /\ curActor' = 0
                     /\ processed' = Append(processed,
                          Done(cur, "error", 0,
                               IF res.raised THEN "teardown failed"
                               ELSE "init failed"))
                ELSE /\ actors' = Append(torn,
                                    LiveBrowserStream(s, cur.url))
                     /\ registry' = [registry EXCEPT ![s] = 0]
                     /\ curActor' = Len(actors) + 1
                     /\ ppc' = "start"
                     /\ UNCHANGED <<store, processed>>
  /\ UNCHANGED <<frames, stalled, published, sent, queue, enqueued, cur>>

\* start() raised: the failure is written to the store, the loop goes on.
ProvError ==
  /\ UNCHANGED <<conns, cmd, resp, pages>>
  /\ ppc = "start"
  /\ actors[curActor].pc = "raised"
  /\ store' = [store EXCEPT ![cur.sessionId] =
                 hset(@, error_fields(actors[curActor].err))]
  /\ ppc' = "pop"
  /\ processed' = Append(processed,
       Done(cur, "error", curActor, actors[curActor].err))
  /\ UNCHANGED <<streamVars, queue, enqueued, cur, curActor, registry>>

\* start() returned: the actor is registered and the session marked ready.
ProvReady ==
  /\ UNCHANGED <<conns, cmd, resp, pages>>
  /\ ppc = "start"
  /\ actors[curActor].pc = "returned"
  /\ registry' = [registry EXCEPT ![cur.sessionId] = curActor]
  /\ store' = [store EXCEPT ![cur.sessionId] = hset(@, ready_fields)]
  /\ ppc' = "pop"
  /\ processed' = Append(processed, Done(cur, "ready", curActor, ""))
  /\ UNCHANGED <<streamVars, queue, enqueued, cur, curActor>>

\* An explicit stop request for a session: stop the actor, remove the entry.
StopRequest ==
  /\ UNCHANGED <<conns, cmd, resp, pages>>
  /\ \E s \in SessionIds, failAt \in StopFailures :
       /\ registry[s] # 0
       /\ LET res == stop(actors[registry[s]], failAt)
          IN /\ actors' = [actors EXCEPT ![registry[s]] = res.actor]
             /\ registry' = IF res.raised THEN registry
                            ELSE [registry EXCEPT ![s] = 0]
  /\ UNCHANGED <<frames, stalled, store, published, sent, queue, enqueued,
                 ppc, cur, curActor, processed>>

\* ------------------------------------------------------------ start() steps
Starting(p) == ppc = "start" /\ curActor # 0 /\ actors[curActor].pc = p

StartConnect ==
  /\ UNCHANGED <<conns, cmd, resp, pages>>
  /\ Starting("connect")
  /\ \E ok \in BOOLEAN :
       actors' = [actors EXCEPT ![curActor] = start_connect(@, ok)]
  /\ UNCHANGED <<frames, stalled, store, published, sent, provVars>>

StartLaunch ==
  /\ UNCHANGED <<conns, cmd, resp, pages>>
  /\ Starting("launch")
  /\ \E ok \in BOOLEAN :
       actors' = [actors EXCEPT ![curActor] = start_launch(@, ok)]
  /\ UNCHANGED <<frames, stalled, store, published, sent, provVars>>

StartPage ==
  /\ UNCHANGED <<conns, cmd, resp, pages>>
  /\ Starting("page")
  /\ \E ok \in BOOLEAN :
       actors' = [actors EXCEPT ![curActor] = start_page(@, ok)]
  /\ UNCHANGED <<frames, stalled, store, published, sent, provVars>>

StartScreencast ==
  /\ UNCHANGED <<conns, cmd, resp, pages>>
  /\ Starting("screencast")
  /\ \E ok \in BOOLEAN :
       actors' = [actors EXCEPT ![curActor] = start_screencast(@, ok)]
  /\ UNCHANGED <<frames, stalled, store, published, sent, provVars>>

StartAttach ==
  /\ UNCHANGED <<conns, cmd, resp, pages>>
  /\ Starting("attach")
  /\ \E ok \in BOOLEAN :
       /\ store' = [store EXCEPT ![cur.sessionId] = start_hset(@, ok)]
       /\ actors' = [actors EXCEPT ![curActor] =
            IF start_hset_raises(ok)
            THEN start_except([@ EXCEPT !.listener = TRUE], "store failed")
            ELSE start_attach(@)]
  /\ UNCHANGED <<frames, stalled, published, sent, provVars>>

\* ------------------------------------------------------- frames, _on_frame
IsActor(a) == a \in 1..Len(actors)

\* The engine emits a frame once the previous one is acknowledged.  With no
\* callback registered the event is lost and stays unacknowledged.
EmitFrame ==
  /\ UNCHANGED <<conns, cmd, resp, pages>>
  /\ Len(frames) < MaxFrames
  /\ \E a \in ActorIds, k \in PayloadKinds :
       /\ IsActor(a)
       /\ actors[a].capturing
       /\ actors[a].unacked = 0
       /\ LET f == Len(frames) + 1
              heard == actors[a].listener
          IN /\ frames' = Append(frames,
                  [actor |-> a, kind |-> k, acks |-> 0, ackFailed |-> FALSE,
                   fate |-> IF heard THEN "delivered" ELSE "dropped"])
             /\ actors' = [actors EXCEPT ![a] =
                  IF heard
                  THEN [@ EXCEPT !.unacked = f, !.hpc = "begin", !.hframe = f]
                  ELSE [@ EXCEPT !.unacked = f]]
  /\ UNCHANGED <<stalled, store, published, sent, provVars>>

\* _on_frame up to its first await: build the message, publish to the store.
OnFrameBegin ==
  /\ UNCHANGED <<conns, cmd, resp, pages>>
  /\ \E a \in ActorIds :
       /\ IsActor(a)
       /\ actors[a].hpc = "begin"
       /\ LET r == actors[a]
              f == r.hframe
          IN IF on_frame_build_raises(frames[f].kind)
             THEN /\ frames' = [frames EXCEPT ![f] = on_frame_except(@)]
                  /\ actors' = on_frame_return(actors, a)
                  /\ UNCHANGED published
             ELSE /\ \E ok \in BOOLEAN :
                       published' = IF ok
                         THEN [published EXCEPT ![r.session_id] = forward(@, f)]
                         ELSE published
                  /\ actors' = [actors EXCEPT ![a].hpc = on_frame_next(r)]
                  /\ UNCHANGED frames
  /\ UNCHANGED <<stalled, store, sent, provVars>>

\* await self.ws.send(...): completes (sent, or an exception that is logged)
\* unless the channel is stalled.
OnFrameSend ==
  /\ UNCHANGED <<conns, cmd, resp, pages>>
  /\ \E a \in ActorIds :
       /\ IsActor(a)
       /\ actors[a].hpc = "send"
       /\ a \notin stalled
       /\ \E ok \in BOOLEAN :
            sent' = IF ok /\ actors[a].ws = "open"
                    THEN [sent EXCEPT ![actors[a].session_id] =
                            forward(@, actors[a].hframe)]
                    ELSE sent
       /\ actors' = [actors EXCEPT ![a].hpc = "ack"]
  /\ UNCHANGED <<frames, stalled, store, published, provVars>>

\* await self.cdp.send('Page.screencastFrameAck', ...), then return.
OnFrameAck ==
  /\ UNCHANGED <<conns, cmd, resp, pages>>
  /\ \E a \in ActorIds :
       /\ IsActor(a)
       /\ actors[a].hpc = "ack"
       /\ LET r == actors[a]
              f == r.hframe
          IN IF on_frame_ack_raises(frames[f].kind)
             THEN /\ frames' = [frames EXCEPT ![f] = on_frame_except(@)]
                  /\ actors' = on_frame_return(actors, a)
             ELSE \E ok \in BOOLEAN :
                    IF ok /\ r.browser = "open"
                    THEN /\ frames' = [frames EXCEPT ![f] =
                              [@ EXCEPT !.acks = @ + 1, !.fate = "returned"]]
                         /\ actors' = [actors EXCEPT ![a] =
                              [@ EXCEPT !.hpc = "idle", !.unacked = 0]]
                    ELSE /\ frames' = [frames EXCEPT ![f] =
                              on_frame_except([@ EXCEPT !.ackFailed = TRUE])]
                         /\ actors' = on_frame_return(actors, a)
  /\ UNCHANGED <<stalled, store, published, sent, provVars>>

\* The consumer stops reading: from now on no send on this channel completes.
Stall ==
  /\ UNCHANGED <<conns, cmd, resp, pages>>
  /\ \E a \in ActorIds :
       /\ IsActor(a)
       /\ actors[a].ws = "open"
       /\ a \notin stalled
       /\ stalled' = stalled \cup {a}
  /\ UNCHANGED <<actors, frames, store, published, sent, provVars>>

\* A command for a session: answered "stream not found" when no actor is
\* registered for it, passed to the actor's method otherwise.
Command ==
  /\ Len(cmd) < MaxCommands
  /\ \E s \in SessionIds, op \in Ops :
       LET a == find_stream(registry, s)
       IN cmd' = Append(cmd,
            IF a = 0
            THEN [sessionId |-> s, op |-> op, actor |-> 0,
                  result |-> "stream not found"]
            ELSE [sessionId |-> s, op |-> op, actor |-> a,
                  result |-> command(actors[a], op)])
  /\ UNCHANGED <<actors, frames, stalled, store, published, sent, provVars,
                 conns, resp, pages>>

\* POST /task; hasArg: the request carries the argument its action needs.
\* With the page opened (browserOk) the action runs on the page that
\* new_page returned; the response records that page and what the action
\* found on it.
CreateTask ==
  /\ Len(resp) < MaxTasks
  /\ \E action \in Actions, hasArg, browserOk, pageOk \in BOOLEAN :
       LET ps == new_page(pages)
           p == Len(ps)
           r == create_task(action, hasArg, hasArg, hasArg, browserOk,
                            pageOk)
       IN IF browserOk
          THEN \E after \in page_after(action, hasArg, pageOk) :
                 /\ pages' = [ps EXCEPT ![p] = after]
                 /\ resp' = Append(resp,
                      answered(r, [hasArg |-> hasArg, browserOk |-> TRUE,
                                   pageOk |-> pageOk, page |-> p,
                                   seen |-> ps[p]]))
          ELSE /\ pages' = pages
               /\ resp' = Append(resp,
                    answered(r, [hasArg |-> hasArg, browserOk |-> FALSE,
                                 pageOk |-> pageOk, page |-> 0,
                                 seen |-> ""]))
  /\ UNCHANGED <<actors, frames, stalled, store, published, sent, provVars,
                 conns, cmd>>

\* POST /browser-use-task, /skyvern-task, /lavague-task, /stagehand-task.
AgentTask ==
  /\ Len(resp) < MaxTasks
  /\ \E agent \in Agents, stage \in AgentStages :
       resp' = Append(resp, answered(agent_task(agent, stage),
                                     [stage |-> stage]))
  /\ UNCHANGED <<actors, frames, stalled, store, published, sent, provVars,
                 conns, cmd, pages>>

GatewayNext ==
  \/ CreateTask
  \/ AgentTask

GatewaySpec == Init /\ [][GatewayNext]_vars

\* The provisioning side: the queue, the loop, start() and stop().
Next ==
  \/ Enqueue
  \/ ProvPop
  \/ ProvSleep
  \/ ProvBackoff
  \/ ProvBegin
  \/ ProvError
  \/ ProvReady
  \/ StopRequest
  \/ StartConnect
  \/ StartLaunch
  \/ StartPage
  \/ StartScreencast
  \/ StartAttach

Spec == Init /\ [][Next]_vars

\* The loop and the start() it awaits are scheduled whenever they can run;
\* producers and stop requests are under no obligation.
ProvFairness ==
  /\ WF_vars(ProvPop)
  /\ WF_vars(ProvSleep)
  /\ WF_vars(ProvBackoff)
  /\ WF_vars(ProvBegin)
  /\ WF_vars(ProvError)
  /\ WF_vars(ProvReady)
  /\ WF_vars(StartConnect)
  /\ WF_vars(StartLaunch)
  /\ WF_vars(StartPage)
  /\ WF_vars(StartScreencast)
  /\ WF_vars(StartAttach)

FairSpec == Spec /\ ProvFairness

\* ---------------------------------------------------------------- relaying
\* An actor whose start() ran to its normal return.
started(s, u) ==
  start_attach(start_screencast(start_page(start_launch(start_connect(
    LiveBrowserStream(s, u), TRUE), TRUE), TRUE), TRUE))

\* The frame relay is checked from the state in which both sessions have been
\* provisioned: one capturing actor each, registered, the store ready.
RelayInit ==
  /\ actors = <<started("s1", "wsA"), started("s2", "wsB")>>
  /\ frames = << >>
  /\ stalled = {}
  /\ store = [s \in SessionIds |-> hset(start_hset(NoFields, TRUE), ready_fields)]
  /\ published = [s \in SessionIds |-> << >>]
  /\ sent = [s \in SessionIds |-> << >>]
  /\ queue = << >>
  /\ enqueued = 2
  /\ ppc = "pop"
  /\ cur = [sessionId |-> "s2", url |-> "wsB"]
  /\ curActor = 2
  /\ registry = [s \in SessionIds |-> IF s = "s1" THEN 1 ELSE 2]
  /\ processed =
       <<[sessionId |-> "s1", url |-> "wsA", outcome |-> "ready",
          actor |-> 1, err |-> ""],
         [sessionId |-> "s2", url |-> "wsB", outcome |-> "ready",
          actor |-> 2, err |-> ""]>>
  /\ conns = [c \in Conns |-> NoConn]
  /\ cmd = << >>
  /\ resp = << >>
  /\ pages = startup_pages

RelayNext ==
  \/ EmitFrame
  \/ OnFrameBegin
  \/ OnFrameSend
  \/ OnFrameAck
  \/ Stall
  \/ StopRequest

RelaySpec == RelayInit /\ [][RelayNext]_vars

\* The end of start() with the engine running: the request for s1 is being
\* started, its channel is connected, its browser launched and its page
\* open; the engine emits frames from the moment capture is started.
StartCaptureInit ==
  /\ actors = <<start_page(start_launch(start_connect(
                  LiveBrowserStream("s1", "wsA"), TRUE), TRUE), TRUE)>>
  /\ frames = << >>
  /\ stalled = {}
  /\ store = [s \in SessionIds |-> NoFields]
  /\ published = [s \in SessionIds |-> << >>]
  /\ sent = [s \in SessionIds |-> << >>]
  /\ queue = << >>
  /\ enqueued = 1
  /\ ppc = "start"
  /\ cur = [sessionId |-> "s1", url |-> "wsA"]
  /\ curActor = 1
  /\ registry = [s \in SessionIds |-> 0]
  /\ processed = << >>
  /\ conns = [c \in Conns |-> NoConn]
  /\ cmd = << >>
  /\ resp = << >>
  /\ pages = startup_pages

StartCaptureNext ==
  \/ StartScreencast
  \/ StartAttach
  \/ ProvReady
  \/ ProvError
  \/ EmitFrame
  \/ OnFrameBegin
  \/ OnFrameSend
  \/ OnFrameAck

StartCaptureSpec == StartCaptureInit /\ [][StartCaptureNext]_vars

\* The event loop resumes a frame handler whenever its await can complete;
\* a send on a stalled channel never can.
RelayFairness ==
  /\ WF_vars(OnFrameBegin)
  /\ WF_vars(OnFrameSend)
  /\ WF_vars(OnFrameAck)

RelayFairSpec == RelaySpec /\ RelayFairness

\* The command surface next to stop requests, both sessions provisioned.
CommandNext ==
  \/ Command
  \/ StopRequest

CommandSpec == RelayInit /\ [][CommandNext]_vars

\* ------------------------------------------------------------------ tunnel
\* websockify_endpoint, lines 477-595.  (The 'except' of line 587 is read as
\* the handler of the 'try' of line 551, and line 595 as the function's
\* return; the code after it is not reached.)
nonTunnelVars == <<actors, frames, stalled, store, published, sent, queue,
                   enqueued, ppc, cur, curActor, registry, processed, cmd,
                   resp, pages>>

\* lines 488-542: a client connects; the handler reads the query parameters
\* and validates the token, closing with a reason when it is rejected.
TunnelValidate ==
  /\ \E c \in Conns, tok \in Tokens, q \in QuerySids, t \in 0..MaxTime,
        d \in 0..1 :
       /\ conns[c].pc = "pending"
       /\ LET v0 == websockify_validate(tok, t, t + d)
              v == IF v0.ok /\ session_mismatch(tok, q)
                   THEN on_session_mismatch(v0) ELSE v0
          IN conns' = [conns EXCEPT ![c] =
               [@ EXCEPT !.token = tok, !.sessionId = q, !.vtime = t + d,
                         !.reason = v.reason, !.log = v.log,
                         !.pc = IF v.ok THEN "validated" ELSE "closed",
                         !.client = IF v.ok THEN "open" ELSE "closed"]]
  /\ UNCHANGED nonTunnelVars

\* line 545: await websocket.accept(), outside any try: a failure (the peer
\* is gone) leaves the handler.
TunnelAccept ==
  /\ \E c \in Conns, ok \in BOOLEAN :
       /\ conns[c].pc = "validated"
       /\ conns' = [conns EXCEPT ![c] =
            IF ok
            THEN [@ EXCEPT !.pc = "accepted", !.log = Append(@, "accept")]
            ELSE [@ EXCEPT !.pc = "closed", !.client = "closed",
                           !.log = Append(@, "accept failed")]]
  /\ UNCHANGED nonTunnelVars

\* lines 551-555 and 587-594: websockets.connect to 127.0.0.1:6080; on
\* failure the client connection is closed.
TunnelConnect ==
  /\ \E c \in Conns, ok \in BOOLEAN :
       /\ conns[c].pc = "accepted"
       /\ conns' = [conns EXCEPT ![c] =
            IF ok
            THEN [@ EXCEPT !.pc = "relaying", !.upstream = "open",
                           !.c2u = "run", !.u2c = "run",
                           !.log = Append(Append(@, "connect"), "relaying")]
            ELSE [@ EXCEPT !.pc = "closed", !.client = "closed",
                           !.log = Append(Append(@, "connect"),
                                          "connect failed")]]
  /\ UNCHANGED nonTunnelVars

\* lines 557-568: the client disconnects; receive_bytes raises, the loop
\* closes the upstream connection and ends.
ClientDisconnect ==
  /\ \E c \in Conns :
       /\ conns[c].pc = "relaying"
       /\ conns[c].c2u = "run"
       /\ conns' = [conns EXCEPT ![c] =
            [@ EXCEPT !.client = "closed", !.c2u = "done",
                      !.upstream = "closed"]]
  /\ UNCHANGED nonTunnelVars

\* lines 570-577: the upstream connection is closed (by the endpoint, or by
\* the other loop): 'async for' ends without an exception and the loop
\* returns; nothing is closed.
UpstreamEnds ==
  /\ \E c \in Conns :
       /\ conns[c].pc = "relaying"
       /\ conns[c].u2c = "run"
       /\ conns' = [conns EXCEPT ![c] =
            [@ EXCEPT !.upstream = "closed", !.u2c = "done"]]
  /\ UNCHANGED nonTunnelVars

\* lines 570-577: a message from upstream is sent to the client.
UpstreamData ==
  /\ \E c \in Conns :
       /\ conns[c].pc = "relaying"
       /\ conns[c].u2c = "run"
       /\ conns[c].upstream = "open"
       /\ conns[c].client = "open"
       /\ conns[c].bytes < MaxBytes
       /\ \E m \in Msgs :
            conns' = [conns EXCEPT ![c] =
              [@ EXCEPT !.bytes = @ + 1,
                        !.fromUpstream = Append(@, m),
                        !.toClient = relay_send(@, m)]]
  /\ UNCHANGED nonTunnelVars

\* lines 559-562: data from the client is sent upstream.
ClientData ==
  /\ \E c \in Conns :
       /\ conns[c].pc = "relaying"
       /\ conns[c].c2u = "run"
       /\ conns[c].upstream = "open"
       /\ conns[c].client = "open"
       /\ conns[c].bytes < MaxBytes
       /\ \E m \in Msgs :
            /\ ~receive_bytes_raises(m)
            /\ conns' = client_to_upstream(conns, c, m)
  /\ UNCHANGED nonTunnelVars

\* A close raised out of a copy loop: gather re-raises it, 'async with'
\* closes upstream, and the handler of line 587 closes the client
\* connection (lines 591-594); what that close raises and lets escape leaves
\* the tunnel handler.
loop_raised(k, r2) ==
  [k EXCEPT !.pc = IF close_escapes(r2) THEN "crashed" ELSE "closed",
            !.c2u = "done", !.u2c = "done",
            !.upstream = "closed", !.client = "closed",
            !.log = close_logged(@, k.client)]

\* lines 559-568, the client sending a text message: receive_bytes raises,
\* the message is not forwarded, the loop closes upstream and ends.
ClientText ==
  /\ \E c \in Conns, m \in Msgs :
       /\ conns[c].pc = "relaying"
       /\ conns[c].c2u = "run"
       /\ conns[c].client = "open"
       /\ receive_bytes_raises(m)
       /\ \E r1 \in close_may_raise(conns[c].upstream),
             r2 \in close_may_raise(conns[c].client) :
            LET k == [conns[c] EXCEPT
                        !.fromClient = Append(@, m),
                        !.log = close_logged(@, conns[c].upstream)]
            IN conns' = [conns EXCEPT ![c] =
                 IF close_escapes(r1)
                 THEN loop_raised(k, r2)
                 ELSE [k EXCEPT !.c2u = "done", !.upstream = "closed"]]
  /\ UNCHANGED nonTunnelVars

\* lines 578-583: the upstream connection breaks, or a send to the client
\* fails: the loop closes the client connection and ends.
UpstreamToClientFails ==
  /\ \E c \in Conns, broke \in BOOLEAN :
       /\ conns[c].pc = "relaying"
       /\ conns[c].u2c = "run"
       /\ conns[c].upstream = "open"
       /\ \E r1 \in close_may_raise(conns[c].client),
             r2 \in close_may_raise("closed") :
            LET k == [conns[c] EXCEPT
                        !.upstream = IF broke THEN "closed" ELSE @,
                        !.fromUpstream = IF broke THEN @ ELSE Append(@, "b1"),
                        !.log = close_logged(@, conns[c].client)]
            IN conns' = [conns EXCEPT ![c] =
                 IF close_escapes(r1)
                 THEN loop_raised(k, r2)
                 ELSE [k EXCEPT !.client = "closed", !.u2c = "done"]]
  /\ UNCHANGED nonTunnelVars

\* lines 559-568, the client connection being closed: receive_bytes raises,
\* the loop closes upstream and ends.
ClientToUpstreamFails ==
  /\ \E c \in Conns :
       /\ conns[c].pc = "relaying"
       /\ conns[c].c2u = "run"
       /\ conns[c].client = "closed"
       /\ \E r1 \in close_may_raise(conns[c].upstream),
             r2 \in close_may_raise(conns[c].client) :
            LET k == [conns[c] EXCEPT
                        !.log = close_logged(@, conns[c].upstream)]
            IN conns' = [conns EXCEPT ![c] =
                 IF close_escapes(r1)
                 THEN loop_raised(k, r2)
                 ELSE [k EXCEPT !.c2u = "done", !.upstream = "closed"]]
  /\ UNCHANGED nonTunnelVars

\* lines 559-568, upstream being closed and the client sending data:
\* upstream.send raises, the loop closes upstream (again) and ends.  While
\* the client sends nothing the loop waits in receive_bytes.
ClientSendsToClosedUpstream ==
  /\ \E c \in Conns :
       /\ conns[c].pc = "relaying"
       /\ conns[c].c2u = "run"
       /\ conns[c].client = "open"
       /\ conns[c].upstream = "closed"
       /\ \E r1 \in close_may_raise(conns[c].upstream),
             r2 \in close_may_raise(conns[c].client) :
            LET k == [conns[c] EXCEPT
                        !.fromClient = Append(@, "b1"),
                        !.log = close_logged(@, conns[c].upstream)]
            IN conns' = [conns EXCEPT ![c] =
                 IF close_escapes(r1)
                 THEN loop_raised(k, r2)
                 ELSE [k EXCEPT !.c2u = "done", !.upstream = "closed"]]
  /\ UNCHANGED nonTunnelVars

\* line 585 and the exit of 'async with': both loops have ended, the
\* upstream connection is closed and the handler returns.
TunnelReturn ==
  /\ \E c \in Conns :
       /\ conns[c].pc = "relaying"
       /\ conns[c].c2u = "done"
       /\ conns[c].u2c = "done"
       /\ conns' = [conns EXCEPT ![c] =
            [@ EXCEPT !.pc = "closed", !.upstream = "closed",
                      !.client = "closed"]]
  /\ UNCHANGED nonTunnelVars

TunnelNext ==
  \/ TunnelValidate
  \/ TunnelAccept
  \/ TunnelConnect
  \/ ClientDisconnect
  \/ UpstreamEnds
  \/ UpstreamToClientFails
  \/ ClientToUpstreamFails
  \/ ClientSendsToClosedUpstream
  \/ TunnelReturn

TunnelSpec == Init /\ [][TunnelNext]_vars

\* One connection followed through its relaying, data included, next to a
\* connection that was rejected for its missing token.
RelayingInit ==
  /\ actors = << >>
  /\ frames = << >>
  /\ stalled = {}
  /\ store = [s \in SessionIds |-> NoFields]
  /\ published = [s \in SessionIds |-> << >>]
  /\ sent = [s \in SessionIds |-> << >>]
  /\ queue = << >>
  /\ enqueued = 0
  /\ ppc = "pop"
  /\ cur = NoReq
  /\ curActor = 0
  /\ registry = [s \in SessionIds |-> 0]
  /\ processed = << >>
  /\ conns = [c \in Conns |->
       IF c = "c1" THEN NoConn
       ELSE [NoConn EXCEPT !.pc = "closed", !.client = "closed",
                           !.reason = "Missing token", !.log = <<"close">>]]
  /\ cmd = << >>
  /\ resp = << >>
  /\ pages = startup_pages

RelayingNext ==
  \/ TunnelValidate
  \/ TunnelAccept
  \/ TunnelConnect
  \/ ClientDisconnect
  \/ UpstreamEnds
  \/ UpstreamToClientFails
  \/ ClientToUpstreamFails
  \/ ClientSendsToClosedUpstream
  \/ UpstreamData
  \/ ClientData
  \/ ClientText
  \/ TunnelReturn

RelayingSpec == RelayingInit /\ [][RelayingNext]_vars

\* A connection of session s that was accepted with a signed token without
\* expiry, reached the relaying state and has relayed n messages from its
\* client.
relayed(s, n) ==
  LET tok == [kind |-> "signed", hasExp |-> FALSE, exp |-> 0, nbf |-> FALSE,
              sid |-> s]
      v == websockify_validate(tok, 0, 0)
  IN [NoConn EXCEPT !.pc = "relaying", !.token = tok, !.sessionId = "",
                    !.reason = v.reason,
                    !.log = Append(Append(Append(v.log, "accept"),
                                          "connect"), "relaying"),
                    !.client = "open", !.upstream = "open",
                    !.c2u = "run", !.u2c = "run", !.bytes = n,
                    !.fromClient = [i \in 1..n |-> "b1"],
                    !.toUpstream = [i \in 1..n |-> "b1"]]

\* Two accepted connections relaying at the same time, each with room for
\* one more message.
ConcurrentInit ==
  /\ actors = << >>
  /\ frames = << >>
  /\ stalled = {}
  /\ store = [s \in SessionIds |-> NoFields]
  /\ published = [s \in SessionIds |-> << >>]
  /\ sent = [s \in SessionIds |-> << >>]
  /\ queue = << >>
  /\ enqueued = 0
  /\ ppc = "pop"
  /\ cur = NoReq
  /\ curActor = 0
  /\ registry = [s \in SessionIds |-> 0]
  /\ processed = << >>
  /\ conns = [c \in Conns |->
       relayed(IF c = "c1" THEN "s1" ELSE "s2", MaxBytes - 1)]
  /\ cmd = << >>
  /\ resp = << >>
  /\ pages = startup_pages

ConcurrentNext ==
  \/ ClientData
  \/ UpstreamData
  \/ ClientText
  \/ ClientDisconnect
  \/ UpstreamEnds
  \/ UpstreamToClientFails
  \/ ClientToUpstreamFails
  \/ ClientSendsToClosedUpstream
  \/ TunnelReturn

ConcurrentSpec == ConcurrentInit /\ [][ConcurrentNext]_vars

\* The handler's own steps are taken once they can be: the handshake, the
\* upstream connect, a copy loop noticing that its end is closed, and the
\* return after both loops.  What the peers do (disconnect, close, send) is
\* up to them.
TunnelFairness ==
  /\ WF_vars(TunnelAccept)
  /\ WF_vars(TunnelConnect)
  /\ WF_vars(ClientToUpstreamFails)
  /\ WF_vars(UpstreamEnds /\ \E c \in Conns :
                 /\ conns[c].upstream = "closed"
                 /\ conns[c].u2c = "run"
                 /\ conns'[c].u2c = "done")
  /\ WF_vars(TunnelReturn)

RelayingFairSpec == RelayingSpec /\ TunnelFairness

TypeOK ==
  /\ ppc \in {"pop", "sleep", "backoff", "got", "start"}
  /\ Len(frames) <= MaxFrames

\* The state the relay is checked from is a state provisioning reaches.
RelayInitUnreached == ~RelayInit

\* ------------------------------------------------------------------ helpers
Has(log, e) == \E i \in 1..Len(log) : log[i] = e

\* every occurrence of b in the log has an a somewhere before it
Before(log, a, b) ==
  \A j \in 1..Len(log) : log[j] = b => \E i \in 1..(j - 1) : log[i] = a

\* the actors of a session whose screencast is running
CapturingActors(s) ==
  {a \in 1..Len(actors) : actors[a].session_id = s /\ actors[a].capturing}

\* the provisioning loop is processing a request for session s
InProgress(s) == ppc \in {"got", "start"} /\ cur.sessionId = s

\* index of the last processed request for session s (0: none)
LastFor(s) ==
  LET I == {i \in 1..Len(processed) : processed[i].sessionId = s}
  IN IF I = {} THEN 0 ELSE CHOOSE i \in I : \A j \in I : j <= i

ShowsReady(s) ==
  /\ Get(store[s], "status") = "ready"
  /\ Get(store[s], "browser_ready") = "true"

\* ------------------------------------------------------------------- claims

\* C1: every frame whose handler (_on_frame) has returned was acknowledged
\* exactly once, for every outcome of the store publish and of the channel
\* send and for every payload (the acknowledgment call itself not failing).
C1_AckExactlyOnce ==
  \A f \in 1..Len(frames) :
    (frames[f].fate = "returned" /\ ~frames[f].ackFailed)
      => frames[f].acks = 1

\* C2: a frame whose handler reaches the send on a permanently stalled
\* consumer channel is still acknowledged (the handler does not wait on the
\* channel).
C2_StalledSendStillAcked ==
  \A a \in ActorIds :
    (IsActor(a) /\ a \in stalled /\ actors[a].hpc = "send")
      ~> (IsActor(a) /\ actors[a].hpc = "idle" /\ actors[a].unacked = 0)

\* The tokens C3 speaks of, judged at the time validation ends.
Expired(k) == k.token.hasExp /\ k.token.exp <= k.vtime
BadToken(k) ==
  k.token.kind \in {"malformed", "badsig"}
    \/ (k.token.kind = "signed" /\ Expired(k))
SignedUnexpired(k) == k.token.kind = "signed" /\ ~Expired(k)

\* C3 as claimed: a connection with a malformed, expired or wrongly signed
\* token never relays, and a connection with a correctly signed, unexpired
\* token relays: it does not end without having relayed.  (Stated for the
\* tokens no other check of the decoder rejects and the connections whose
\* handshake succeeded, which the claim includes.)
C3_AuthCompletenessOriginal ==
  \A c \in Conns :
    LET k == conns[c]
    IN k.pc # "pending" =>
         /\ (BadToken(k) => ~Has(k.log, "relaying"))
         /\ (SignedUnexpired(k) /\ ~k.token.nbf /\ Has(k.log, "accept")
               /\ k.pc = "closed" => Has(k.log, "relaying"))

\* C3 as amended: a malformed, expired or wrongly signed token never passes
\* validation and never relays; a correctly signed, unexpired token that
\* fails no other check of the decoder (not-before) passes validation, and
\* the connection ends without having relayed only when the handshake or the
\* upstream connect failed.
C3_AuthCompleteness ==
  \A c \in Conns :
    LET k == conns[c]
    IN k.pc # "pending" =>
         /\ (BadToken(k) =>
               /\ k.pc = "closed"
               /\ ~Has(k.log, "validated")
               /\ ~Has(k.log, "relaying"))
         /\ (SignedUnexpired(k) /\ ~k.token.nbf =>
               /\ Has(k.log, "validated")
               /\ k.reason = ""
               /\ (k.pc = "closed" /\ ~Has(k.log, "relaying") =>
                     Has(k.log, "accept failed") \/ Has(k.log, "connect failed")))
         /\ (SignedUnexpired(k) /\ k.token.nbf => k.pc = "closed")

C3_Witness ==
  \E c, d \in Conns :
    /\ SignedUnexpired(conns[c]) /\ conns[c].pc = "relaying"
    /\ conns[d].token.kind = "signed" /\ Expired(conns[d])
    /\ conns[d].pc = "closed"

\* C4: on every connection the token is decoded and found valid before the
\* handshake (accept), and the handshake happens before the upstream connect;
\* a rejected connection has neither an accept nor an upstream connect.
C4_ValidateBeforeHandshake ==
  \A c \in Conns :
    LET k == conns[c]
    IN /\ Before(k.log, "decode", "validated")
       /\ Before(k.log, "validated", "accept")
       /\ Before(k.log, "validated", "accept failed")
       /\ Before(k.log, "accept", "connect")
       /\ (k.reason # "" =>
             /\ ~Has(k.log, "accept")
             /\ ~Has(k.log, "accept failed")
             /\ ~Has(k.log, "connect")
             /\ k.pc = "closed"
             /\ k.upstream = "none")

C4_Witness ==
  \E c, d \in Conns :
    /\ conns[c].log = <<"decode", "validated", "accept", "connect", "relaying">>
    /\ conns[d].reason = "Token expired"
    /\ conns[d].pc = "closed"

\* C5: in every state at most one actor of a session has a running capture
\* stream.
C5_AtMostOneActor ==
  \A s \in SessionIds : Cardinality(CapturingActors(s)) <= 1

C5_Witness ==
  \E s \in SessionIds :
    /\ Len(actors) >= 2
    /\ actors[1].session_id = s
    /\ actors[2].session_id = s
    /\ actors[1].cdp
    /\ ~actors[1].capturing
    /\ actors[2].capturing
    /\ registry[s] = 2

\* A step that completes the processing of a request that follows, in the
\* order of processing, a request for the same session.
SecondCompletes ==
  /\ Len(processed') = Len(processed) + 1
  /\ Len(processed) >= 1
  /\ processed'[Len(processed')].sessionId = processed[Len(processed)].sessionId

\* After the step: exactly one actor of the session, holding the parameters
\* of the request just processed.
OneActorOfLastRequest ==
  LET d == processed[Len(processed)]
      s == d.sessionId
  IN /\ registry[s] # 0
     /\ actors[registry[s]].backend_ws_url = d.url
     /\ actors[registry[s]].session_id = s
     /\ CapturingActors(s) = {registry[s]}

\* An actor is constructed for a session only when no older actor of that
\* session is still capturing.
TornDownFirst ==
  \A a, b \in 1..Len(actors) :
    (a < b /\ actors[a].session_id = actors[b].session_id)
      => ~actors[a].capturing

\* C6 as claimed: once the second of two requests for one session has been
\* processed, exactly one actor exists for the session and it holds the
\* second request's connection parameters.
\* (Stated for the second requests whose actor was constructed, which the
\* claim includes.)
C6_LastRequestWinsOriginal ==
  [][(SecondCompletes /\ processed'[Len(processed')].actor # 0)
       => OneActorOfLastRequest']_vars

\* C6 as amended: the first actor is torn down before the second is
\* constructed, and when the second request's actor starts successfully,
\* exactly one actor exists for the session afterwards and it holds the second
\* request's connection parameters; when the second request fails, no actor
\* of it is registered.
C6_LastRequestWins ==
  [][/\ TornDownFirst'
     /\ (SecondCompletes /\ processed'[Len(processed')].outcome = "ready"
           => OneActorOfLastRequest')
     /\ (SecondCompletes /\ processed'[Len(processed')].outcome = "error"
           => \/ registry'[cur.sessionId] = 0
              \/ registry'[cur.sessionId] = registry[cur.sessionId])]_vars

C6_Witness ==
  /\ Len(processed) = 2
  /\ processed[1].sessionId = processed[2].sessionId
  /\ processed[1].url # processed[2].url
  /\ processed[1].outcome = "ready"
  /\ processed[2].outcome = "ready"
  /\ registry[processed[2].sessionId] = 2
  /\ actors[2].backend_ws_url = processed[2].url
  /\ ~actors[1].capturing

\* failures of the browser engine
EngineErrors == {"launch failed", "page failed", "startScreencast failed"}

\* the failures a processed request can end with
StartErrors ==
  EngineErrors \cup {"teardown failed", "init failed", "connect failed"}

\* C7 as claimed: a processed request whose browser engine did not fail leaves
\* the store showing status=ready and browser_ready=true.  (Stated for the
\* requests whose actor was constructed and started, which the claim
\* includes.)
C7_ProvisioningSuccessOriginal ==
  \A s \in SessionIds :
    (~InProgress(s) /\ LastFor(s) # 0
       /\ processed[LastFor(s)].actor # 0
       /\ processed[LastFor(s)].err \notin EngineErrors)
      => ShowsReady(s)

\* When the last request of a session ended without a failure, the store
\* shows the session ready; a request ends without a failure unless the
\* teardown, the construction, the channel connect or an engine step failed.
ReadyUnlessStartFailed ==
  \A s \in SessionIds :
    (~InProgress(s) /\ LastFor(s) # 0) =>
      LET d == processed[LastFor(s)]
      IN \/ d.outcome = "ready" /\ d.err = "" /\ ShowsReady(s)
         \/ d.outcome = "error" /\ d.err \in StartErrors

\* C7 as amended: every request taken from the queue is eventually processed
\* to its end, and when tearing down the previous actor, constructing the
\* actor, connecting the consumer channel and every engine step succeeded,
\* the store then shows status=ready and browser_ready=true.
C7_ProvisioningSuccess ==
  /\ []ReadyUnlessStartFailed
  /\ \A s \in SessionIds : InProgress(s) ~> ~InProgress(s)

C7_Witness ==
  \E s \in SessionIds :
    /\ LastFor(s) # 0
    /\ ~InProgress(s)
    /\ processed[LastFor(s)].outcome = "ready"
    /\ ShowsReady(s)
    /\ Get(store[s], "stream_started_at") = ""

\* The store shows the failure of the last request of every session whose
\* actor's start() failed: status=error, the message, a failedAt.
FailureRecorded ==
  \A s \in SessionIds :
    (~InProgress(s) /\ LastFor(s) # 0 /\ processed[LastFor(s)].actor # 0
       /\ actors[processed[LastFor(s)].actor].err # "")
      => /\ Get(store[s], "status") = "error"
         /\ Get(store[s], "lastError") = actors[processed[LastFor(s)].actor].err
         /\ Get(store[s], "lastError") # ""
         /\ Get(store[s], "failedAt") # ""

\* C8: when start() fails (connecting the consumer channel, launching or
\* starting capture), the store shows status=error with a non-empty lastError
\* and a failedAt, and the loop is back at its queue pop.
C8_FailureRecorded ==
  [][/\ FailureRecorded'
     /\ (Len(processed') = Len(processed) + 1 => ppc' = "pop")]_vars

C8_Witness ==
  \E s \in SessionIds :
    /\ LastFor(s) # 0
    /\ processed[LastFor(s)].err = "startScreencast failed"
    /\ Get(store[s], "status") = "error"
    /\ Get(store[s], "lastError") = "startScreencast failed"
    /\ ppc = "pop"
    /\ queue # << >>

\* C9: the provisioning loop pops the queue again and again, whatever the
\* polls, queue-access errors and start failures before.
C9_LoopPermanent == []<><<ProvPop>>_vars

C9_Witness ==
  /\ Len(processed) = 2
  /\ processed[1].outcome = "error"
  /\ processed[1].actor # 0
  /\ ppc = "backoff"

\* C10: a connection without a token (absent or empty) is closed at once with
\* the reason "Missing token": no decoding, no handshake, no upstream connect.
C10_MissingToken ==
  \A c \in Conns :
    LET k == conns[c]
    IN (k.pc # "pending" /\ k.token.kind \in {"missing", "empty"}) =>
         /\ k.pc = "closed"
         /\ k.reason = "Missing token"
         /\ k.log = <<"close">>
         /\ k.upstream = "none"

C10_Witness ==
  \E c, d \in Conns :
    /\ conns[c].pc = "closed" /\ conns[c].token.kind = "empty"
    /\ conns[c].reason = "Missing token"
    /\ conns[d].pc = "closed" /\ conns[d].token.kind = "missing"
    /\ conns[d].reason = "Missing token"

\* The close reasons the interface names.
NamedReasons ==
  {"Missing token", "Token expired", "Invalid signature",
   "Invalid token format", "Validation error"}

\* C11: every rejected connection is closed, for good, with one of the named
\* reasons: "Token expired" for an expired token, "Invalid signature" for a
\* wrongly signed one, "Invalid token format" for a malformed one and
\* "Validation error" for any other validation failure.
C11_CloseReasons ==
  \A c \in Conns :
    LET k == conns[c]
    IN (k.pc # "pending" /\ ~Has(k.log, "validated")) =>
         /\ k.pc = "closed"
         /\ k.reason \in NamedReasons
         /\ (k.token.kind = "signed" /\ ~k.token.nbf => k.reason = "Token expired")
         /\ (k.token.kind = "badsig" => k.reason = "Invalid signature")
         /\ (k.token.kind = "malformed" => k.reason = "Invalid token format")
         /\ (k.token.kind = "signed" /\ k.token.nbf
               => k.reason = "Validation error")

C13_TunnelTeardown ==
  \A c \in Conns :
    (conns[c].pc = "relaying"
       /\ (conns[c].c2u = "done" \/ conns[c].u2c = "done"))
      ~> (/\ conns[c].pc = "closed"
          /\ conns[c].client = "closed"
          /\ conns[c].upstream = "closed"
          /\ conns[c].c2u = "done"
          /\ conns[c].u2c = "done")

\* C14: a closed tunnel stays closed and relays nothing more (nothing of the
\* connection changes), and no close, a second close of an end included,
\* raises out of the tunnel handler.
C14_ClosedIsTerminal ==
  [][\A c \in Conns :
       /\ (conns[c].pc = "closed" => conns'[c] = conns[c])
       /\ conns'[c].pc # "crashed"]_vars

C14_Witness ==
  \E c \in Conns :
    /\ conns[c].pc = "closed"
    /\ conns[c].bytes >= 1
    /\ Has(conns[c].log, "reclose")
    /\ conns[c].client = "closed"
    /\ conns[c].upstream = "closed"

\* A sequence of frames of session s in capture order, none twice.
InCaptureOrder(seq, s) ==
  /\ \A i \in 1..Len(seq) :
       /\ seq[i] \in 1..Len(frames)
       /\ actors[frames[seq[i]].actor].session_id = s
  /\ \A i, j \in 1..Len(seq) : i < j => seq[i] < seq[j]

\* C15: for each session, the frames published to the store channel and the
\* frames sent on the consumer channel are each a subsequence of the frames
\* captured for that session, in capture order and without repetition.
C15_FrameOrder ==
  \A s \in SessionIds :
    /\ InCaptureOrder(published[s], s)
    /\ InCaptureOrder(sent[s], s)

C15_Witness ==
  \E s \in SessionIds :
    /\ published[s] = <<1, 2>>
    /\ sent[s] = <<2>>

\* C16: a command for a session that has no registered actor is answered
\* "stream not found" and changes nothing: no actor method is called, no
\* actor is created or changed, no store field is written.
C16_CommandWithoutActor ==
  [][Len(cmd') > Len(cmd) =>
       LET e == cmd'[Len(cmd')]
       IN registry[e.sessionId] = 0 =>
            /\ e.result = "stream not found"
            /\ e.actor = 0
            /\ actors' = actors
            /\ store' = store
            /\ registry' = registry]_vars

C16_Witness ==
  /\ Len(cmd) = 2
  /\ cmd[1].result = "ok"
  /\ cmd[1].sessionId = cmd[2].sessionId
  /\ cmd[2].result = "stream not found"
  /\ registry[cmd[2].sessionId] = 0

\* C17: a step of an explicit stop that does anything leaves the session's
\* actor with capture stopped and with the teardown carried through to its
\* last step, the close of the consumer channel, whichever earlier step
\* failed.  (A failure of that last close itself is not held against the
\* stop: it shows as browser closed, channel open.)
C17_StopTearsDown ==
  [][StopRequest =>
       \A s \in SessionIds :
         (registry[s] # 0 /\ actors'[registry[s]] # actors[registry[s]])
           => /\ ~actors'[registry[s]].capturing
              /\ (actors'[registry[s]].ws = "closed"
                    \/ actors'[registry[s]].browser = "closed")]_vars

\* C18: a step that changes a session's status in the store from error to
\* ready or active belongs to a fresh provisioning request for that session:
\* the attempt that failed has been processed to its end and another request
\* for the session is being processed.
C18_MonotonicStatus ==
  [][\A s \in SessionIds :
       (Get(store[s], "status") = "error"
          /\ Get(store'[s], "status") \in {"ready", "active"})
         => /\ InProgress(s)
            /\ LastFor(s) # 0
            /\ processed[LastFor(s)].outcome = "error"]_vars

C18_Witness ==
  \E s \in SessionIds :
    /\ Len(processed) = 2
    /\ processed[1].sessionId = s /\ processed[1].outcome = "error"
    /\ processed[1].err = "launch failed"
    /\ processed[2].sessionId = s /\ processed[2].outcome = "ready"
    /\ Get(store[s], "status") = "ready"
    /\ Get(store[s], "lastError") = "launch failed"

\* The payloads this core writes.
Payloads == {start_fields, ready_fields} \cup {error_fields(e) : e \in StartErrors}

\* C19: from every state of a session's entry the store reaches, the empty
\* entry included, writing a payload stores each of its fields, keeps the
\* other fields, and writing the same payload a second time changes nothing.
C19_IdempotentWrites ==
  \A s \in SessionIds, p \in Payloads :
    LET once == hset(store[s], p)
        twice == hset(once, p)
    IN /\ twice = once
       /\ \A k \in DOMAIN p : Get(once, k) = p[k]
       /\ \A k \in DOMAIN store[s] \ DOMAIN p : Get(once, k) = store[s][k]

C19_Witness ==
  \E s, u \in SessionIds :
    /\ Len(processed) = 2
    /\ processed[1].sessionId = s /\ processed[1].outcome = "ready"
    /\ processed[2].sessionId = s /\ processed[2].outcome = "ready"
    /\ store[s] = hset(hset(NoFields, start_fields), ready_fields)
    /\ store[u] = NoFields

\* C20: every response of the Task Gateway, of POST /task and of each
\* agent-framework endpoint, on success and on failure, carries a boolean
\* success field and a message field.
C20_ResponseShape ==
  \A i \in 1..Len(resp) :
    /\ resp[i].success \in BOOLEAN
    /\ "success" \in resp[i].keys
    /\ "message" \in resp[i].keys

\* C21: every call of an agent endpoint in which the import, the
\* construction, the execution or the reading of the result fails is answered
\* with success=false, data.error set, actionsExecuted=0 and the endpoint's
\* agentType; no exception leaves the endpoint.
C21_AgentFailureContained ==
  \A i \in 1..Len(resp) :
    (resp[i].endpoint \in Agents /\ resp[i].req.stage # "none") =>
      /\ ~resp[i].raised
      /\ resp[i].success = FALSE
      /\ resp[i].error # ""
      /\ "data" \in resp[i].keys
      /\ resp[i].actionsExecuted = 0
      /\ resp[i].agentType = resp[i].endpoint

C21_Witness ==
  /\ Len(resp) = 2
  /\ resp[1].endpoint = "skyvern" /\ resp[1].req.stage = "import"
  /\ resp[2].endpoint = "stagehand" /\ resp[2].req.stage = "execute"
  /\ ~resp[2].success

\* A step of actor a's frame handler in which something fails: the message
\* is not built or not published, the channel send does not deliver, or the
\* acknowledgment is not made.
FailsIn(a) ==
  /\ IsActor(a)
  /\ actors[a].hpc # "idle"
  /\ actors'[a].hpc # actors[a].hpc
  /\ \/ actors[a].hpc = "begin" /\ published' = published
     \/ actors[a].hpc = "send" /\ sent' = sent
     \/ actors[a].hpc = "ack" /\ actors'[a].unacked # 0

OthersUnchanged(a) ==
  /\ \A b \in ActorIds \ {a} : IsActor(b) => actors'[b] = actors[b]
  /\ Len(frames') = Len(frames)
  /\ \A f \in 1..Len(frames) :
       frames[f].actor # a => frames'[f] = frames[f]
  /\ \A s \in SessionIds \ {actors[a].session_id} :
       /\ store'[s] = store[s]
       /\ published'[s] = published[s]
       /\ sent'[s] = sent[s]

\* C22: a failure inside one session's frame handler (building the message,
\* the store publish, the channel send, the acknowledgment) leaves the
\* actors, frames, acknowledgment progress, published and sent frames and
\* store fields of every other session unchanged.
C22_SessionIsolation ==
  [][\A a \in ActorIds : FailsIn(a) => OthersUnchanged(a)]_vars

C22_Witness ==
  /\ Len(frames) = 2
  /\ frames[1].actor = 1 /\ frames[1].fate = "returned"
  /\ frames[1].acks = 0 /\ frames[1].kind = "nodata"
  /\ actors[1].unacked = 1
  /\ frames[2].actor = 2 /\ frames[2].acks = 1
  /\ published["s2"] = <<2>> /\ sent["s2"] = <<2>>
  /\ actors[2].capturing /\ actors[2].unacked = 0

\* C23: no frame is lost before the handler is attached: no frame that the
\* engine emitted after capture was started went without a registered
\* callback and stays unacknowledged.
C23_NoFrameLostBeforeAttach ==
  \A f \in 1..Len(frames) :
    ~(frames[f].fate = "dropped" /\ frames[f].acks = 0)

\* C24: a failing step of the frame handler is not propagated and does not
\* stop capture: once the handler has returned for a frame, with the engine
\* still reachable and capture on, the engine is free to deliver the next
\* frame of that session.
C24_FailureDoesNotStopCapture ==
  \A f \in 1..Len(frames) :
    LET a == frames[f].actor
    IN (frames[f].fate = "returned" /\ ~frames[f].ackFailed
        /\ actors[a].capturing /\ actors[a].browser = "open")
         => actors[a].unacked # f

\* The step writes the readiness fields of start() for session s.
WritesReadiness(s) ==
  /\ store'[s] # store[s]
  /\ Get(store'[s], "status") = "active"
  /\ Get(store'[s], "browser_ready") = "true"

\* C25: whenever start() writes the readiness fields of a session, the
\* consumer channel of the actor being started is connected, its browser is
\* launched and its start-capture command has succeeded; a step in which
\* start() fails writes nothing to the store.
C25_ReadinessImpliesCapture ==
  [][/\ \A s \in SessionIds :
         WritesReadiness(s) =>
           /\ Starting("attach")
           /\ actors[curActor].session_id = s
           /\ actors[curActor].ws = "open"
           /\ actors[curActor].browser = "open"
           /\ actors[curActor].capturing
     /\ \A a \in ActorIds :
         (IsActor(a) /\ actors[a].pc # "raised" /\ actors'[a].pc = "raised")
           => store' = store]_vars

C25_Witness ==
  /\ Len(actors) = 2
  /\ actors[1].session_id = "s1" /\ actors[1].pc = "raised"
  /\ actors[1].err = "startScreencast failed"
  /\ "browser_ready" \notin DOMAIN store["s1"]
  /\ actors[2].session_id = "s2" /\ actors[2].pc = "returned"
  /\ Get(store["s2"], "status") = "active"
  /\ Get(store["s2"], "browser_ready") = "true"

\* C26: whenever start() has returned without error for a session, the
\* readiness fields that start() writes are in the Session Store for that
\* session.
C26_StoreWrittenOnReturn ==
  \A a \in ActorIds :
    (IsActor(a) /\ actors[a].pc = "returned")
      => /\ Get(store[actors[a].session_id], "browser_ready") = "true"
         /\ "stream_started_at" \in DOMAIN store[actors[a].session_id]

\* s is an initial part of t.
IsPrefix(s, t) ==
  /\ Len(s) <= Len(t)
  /\ \A i \in 1..Len(s) : s[i] = t[i]

\* C27: on every tunnel connection the messages sent upstream are an initial
\* part of the messages received from the client, and the messages sent to
\* the client an initial part of the messages received from upstream, each
\* in the same order and with the same content.
C27_TransparentRelay ==
  \A c \in Conns :
    /\ IsPrefix(conns[c].toUpstream, conns[c].fromClient)
    /\ IsPrefix(conns[c].toClient, conns[c].fromUpstream)

C27_Witness ==
  \E c \in Conns :
    /\ conns[c].pc = "relaying"
    /\ conns[c].fromClient = <<"b2", "b1">>
    /\ conns[c].toUpstream = <<"b2", "b1">>

\* C28: with two accepted connections relaying at the same time, every step
\* of one connection (data in either direction, a close, a failure) changes
\* that connection only: its data reaches no other connection's upstream or
\* client, and every other connection stays as it is, relaying included.
C28_ConnectionsIndependent ==
  [][\A c \in Conns :
       conns'[c] # conns[c] =>
         \A d \in Conns \ {c} : conns'[d] = conns[d]]_vars

C28_Witness ==
  /\ conns["c1"].pc = "closed"
  /\ conns["c1"].fromClient = relayed("s1", MaxBytes - 1).fromClient \o <<"t1">>
  /\ conns["c2"].pc = "relaying"
  /\ conns["c2"].upstream = "open" /\ conns["c2"].client = "open"
  /\ conns["c2"].toUpstream = relayed("s2", MaxBytes - 1).toUpstream \o <<"b2">>

\* The request of /task response r fails in its action: a needed argument is
\* missing, or the page operation fails.
ActionFails(r) ==
  /\ r.endpoint = "task"
  /\ r.action # "other"
  /\ r.req.browserOk
  /\ \/ ~has_argument(r.action, r.req.hasArg, r.req.hasArg, r.req.hasArg)
     \/ ~r.req.pageOk

\* C29: every /task request whose action fails (missing target, selector or
\* text; element not found or not visible, timeout) is answered with
\* success=false and a message naming the failure, no exception leaves the
\* handler, and the next /task request is served normally.
C29_TaskFailureContained ==
  \A i \in 1..Len(resp) :
    /\ resp[i].endpoint = "task" => ~resp[i].raised
    /\ ActionFails(resp[i]) =>
         /\ resp[i].success = FALSE
         /\ "message" \in resp[i].keys
         /\ resp[i].message =
              (IF ~has_argument(resp[i].action, resp[i].req.hasArg,
                                resp[i].req.hasArg, resp[i].req.hasArg)
               THEN "Task failed: missing argument"
               ELSE "Task failed: page operation")
         /\ \A j \in (i + 1)..Len(resp) :
              (resp[j].endpoint = "task" /\ resp[j].action # "other"
               /\ resp[j].req.browserOk /\ ~ActionFails(resp[j]))
                => resp[j].success

C29_Witness ==
  /\ Len(resp) = 2
  /\ resp[1].endpoint = "task" /\ resp[1].action = "click"
  /\ resp[1].req.hasArg /\ ~resp[1].req.pageOk
  /\ resp[1].message = "Task failed: page operation"
  /\ resp[2].endpoint = "task" /\ resp[2].action = "navigate"
  /\ resp[2].success

\* A connection whose token is correctly signed and carries no exp.
SignedNoExp(k) == k.token.kind = "signed" /\ ~k.token.hasExp

\* C30 as claimed: a connection whose token is correctly signed and carries
\* no exp passes validation and reaches the relaying state: it is not closed
\* without having relayed.
C30_NoExpiryAcceptedOriginal ==
  \A c \in Conns :
    LET k == conns[c]
    IN (k.pc # "pending" /\ SignedNoExp(k)) =>
         /\ Has(k.log, "validated")
         /\ (k.pc = "closed" => Has(k.log, "relaying"))

\* C30 as amended: a correctly signed token without exp that fails no other
\* check of the decoder (not-before) passes validation at any time, and its
\* connection ends without having relayed only when the handshake or the
\* upstream connect failed; with a not-before time in the future it is
\* rejected, though not as expired; "Token expired" is the reason only of
\* tokens that carry exp.
C30_NoExpiryAccepted ==
  \A c \in Conns :
    LET k == conns[c]
    IN k.pc # "pending" =>
         /\ (SignedNoExp(k) /\ ~k.token.nbf =>
               /\ Has(k.log, "validated")
               /\ k.reason = ""
               /\ (k.pc = "closed" /\ ~Has(k.log, "relaying") =>
                     Has(k.log, "accept failed")
                       \/ Has(k.log, "connect failed")))
         /\ (SignedNoExp(k) /\ k.token.nbf =>
               k.pc = "closed" /\ k.reason = "Token validation failed")
         /\ (k.reason = "Token expired" => k.token.hasExp)

C30_Witness ==
  \E c \in Conns :
    /\ SignedNoExp(conns[c]) /\ ~conns[c].token.nbf
    /\ conns[c].vtime = MaxTime
    /\ conns[c].pc = "relaying"

\* The /task requests answered so far, and those among them that opened
\* their page.
TaskRequests == {i \in 1..Len(resp) : resp[i].endpoint = "task"}
PagedRequests == {i \in TaskRequests : resp[i].req.browserOk}

\* Request i ran on a page of its own that is still open and was blank when
\* the action started.
OnFreshPage(i) ==
  /\ resp[i].req.page \in 2..Len(pages)
  /\ resp[i].req.seen = "about:blank"
  /\ \A j \in TaskRequests \ {i} : resp[j].req.page # resp[i].req.page

\* C31 as claimed: every /task request runs on a page created for it and
\* never closed, sees nothing an earlier request left, and the number of
\* open pages grows by one per request.
C31_FreshPagePerTaskOriginal ==
  /\ \A i \in TaskRequests : OnFreshPage(i)
  /\ Len(pages) = Len(startup_pages) + Cardinality(TaskRequests)

\* C31 as amended: every /task request whose page could be opened runs on a
\* page created for it and never closed, and sees nothing an earlier request
\* left; the number of open pages grows by one per such request; a request
\* whose page cannot be opened opens none and is answered with a failure.
C31_FreshPagePerTask ==
  /\ \A i \in PagedRequests : OnFreshPage(i)
  /\ \A i \in TaskRequests \ PagedRequests :
       /\ resp[i].req.page = 0
       /\ resp[i].success = FALSE
       /\ resp[i].message = "Task endpoint failed: browser"
  /\ Len(pages) = Len(startup_pages) + Cardinality(PagedRequests)

C31_Witness ==
  /\ Len(resp) = 2
  /\ resp[1].endpoint = "task" /\ resp[1].action = "navigate"
  /\ resp[1].success /\ resp[1].req.page = 2
  /\ resp[2].endpoint = "task" /\ resp[2].action = "click"
  /\ resp[2].req.page = 3 /\ resp[2].req.seen = "about:blank"
  /\ pages = <<"about:blank", "target", "edited">>

\* C32: a start() that has failed has released what it acquired: no actor
\* whose start() raised has its consumer channel open or its browser
\* running.
C32_FailedStartReleases ==
  \A a \in ActorIds :
    (IsActor(a) /\ actors[a].pc = "raised")
      => /\ actors[a].ws # "open"
         /\ actors[a].browser # "open"
====
